---- MODULE Spec2Model ----
(***************************************************************************)
(* Topology Doctor (src/__init__.py): the scene-level report list and the  *)
(* stats record, the analysis operator MESH_OT_AnalyzeTopo and the focus   *)
(* operator MESH_OT_FocusIssue, together with the host state they read:    *)
(* the active object, the mesh object's interaction mode and its mesh.     *)
(***************************************************************************)
EXTENDS Integers, Sequences, FiniteSets, TLC

\* ------------------------------------------------------------------ bounds

\* Focus invocations modelled per record between two analysis runs.
MaxCalls == 4

\* How far above the index cap the element counts of the large meshes go.
MaxOver == 1

\* The slice bound of the serialized index lists: ngon_faces[:200] etc.
IndexCap == 200

\* The aspect-ratio threshold of the sliver check.
SliverRatio == 15

\* The valence above which a vertex is a pole.
PoleValence == 5

\* The side count above which a face is an n-gon.
QuadSides == 4

\* The flat penalty for non-manifold edges.
NonManifoldPenalty == 25

\* ------------------------------------------------------- host-side values

NoObject == "None"

\* The objects of the scene: one mesh object and one that is not a mesh.
ObjectType == [Cube |-> "MESH", Camera |-> "CAMERA"]

Objects == DOMAIN ObjectType

Modes == {"OBJECT", "EDIT"}

\* ------------------------------------------------ text, as Python does it

Digits == <<"0", "1", "2", "3", "4", "5", "6", "7", "8", "9">>

Min(a, b) == IF a < b THEN a ELSE b

Max(a, b) == IF a > b THEN a ELSE b

\* str(n) for n >= 0: the decimal digits, most significant first.
RECURSIVE Str(_)
Str(n) == IF n < 10 THEN <<Digits[n + 1]>>
          ELSE Str(n \div 10) \o <<Digits[(n % 10) + 1]>>

\* ",".join(parts): the parts with one comma between neighbours (joined by
\* halves, which keeps the evaluation shallow on long lists).
RECURSIVE Join(_)
Join(parts) ==
    IF parts = <<>> THEN <<>>
    ELSE IF Len(parts) = 1 THEN parts[1]
    ELSE LET half == Len(parts) \div 2
         IN  Join(SubSeq(parts, 1, half)) \o <<",">>
                \o Join(SubSeq(parts, half + 1, Len(parts)))

\* s.split(','): the pieces between commas, one more than there are commas;
\* "" gives [""].
Split(s) ==
    LET positions == [i \in 1..Len(s) |-> i]
        IsComma(i) == s[i] = ","
        \* the positions of the commas, ascending
        commas == SelectSeq(positions, IsComma)
        From(k) == IF k = 1 THEN 1 ELSE commas[k - 1] + 1
        To(k) == IF k > Len(commas) THEN Len(s) ELSE commas[k] - 1
    IN  [k \in 1..(Len(commas) + 1) |-> SubSeq(s, From(k), To(k))]

DigitValue(ch) == CHOOSE d \in 0..9 : Digits[d + 1] = ch

IsNumeral(s) == Len(s) > 0 /\ \A i \in 1..Len(s) : \E d \in 1..10 : Digits[d] = s[i]

\* int(s) for a numeral s.
RECURSIVE ParseInt(_)
ParseInt(s) == IF Len(s) = 1 THEN DigitValue(s[1])
               ELSE 10 * ParseInt(SubSeq(s, 1, Len(s) - 1)) + DigitValue(s[Len(s)])

\* [int(i) for i in element_indices.split(',')]: ok is FALSE when a piece is
\* not a numeral and int() raises.
ParseIds(s) ==
    LET parts == Split(s)
    IN  IF \E i \in 1..Len(parts) : ~IsNumeral(parts[i])
        THEN [ok |-> FALSE, ids |-> <<>>]
        ELSE [ok |-> TRUE, ids |-> [i \in 1..Len(parts) |-> ParseInt(parts[i])]]

\* xs[:n]
Take(xs, n) == SubSeq(xs, 1, Min(n, Len(xs)))

\* ---------------------------------------------------------------- meshes
\* A mesh is what the host's mesh kernel hands to the add-on: per face its
\* vertex count and the lengths of its edges, per edge whether it is
\* manifold, per vertex the number of edges linked to it.  Element i of a
\* table (1-based here) has mesh index i - 1.

Face(nverts, lens) == [verts |-> nverts, edge_lengths |-> lens]

Edge(manifold) == [is_manifold |-> manifold]

Vert(valence) == [link_edges |-> valence]

Mesh(fs, es, vs) == [faces |-> fs, edges |-> es, verts |-> vs]

RECURSIVE SeqMin(_)
SeqMin(xs) == IF Len(xs) = 1 THEN xs[1] ELSE Min(xs[1], SeqMin(Tail(xs)))

RECURSIVE SeqMax(_)
SeqMax(xs) == IF Len(xs) = 1 THEN xs[1] ELSE Max(xs[1], SeqMax(Tail(xs)))

\* The mesh indices (0-based, ascending) of the elements of a table whose
\* test came out true: [x for x in table if test(x)], read through x.index.
\* hits[k] is the outcome of the test on element k of the table.
Matching(hits) ==
    LET idx == [i \in 1..Len(hits) |-> i - 1]
        Hit(i) == hits[i + 1]
    IN  SelectSeq(idx, Hit)

IsTri(f) == f.verts = 3

IsNgon(f) == f.verts > QuadSides

IsNonManifold(e) == ~e.is_manifold

\* max/min > 15 with min > 0, for a face with more than two edges.
IsSliver(f) ==
    /\ Len(f.edge_lengths) > 2
    /\ SeqMin(f.edge_lengths) > 0
    /\ SeqMax(f.edge_lengths) > SliverRatio * SeqMin(f.edge_lengths)

IsPole(v) == v.link_edges > PoleValence

\* --------------------------------------------------------- the data model

\* TopoIssueItem as add_issue fills it.
add_issue(severity, name, description, indices, type_name) ==
    [severity |-> severity, name |-> name, description |-> description,
     element_indices |-> indices, element_type |-> type_name,
     current_pointer |-> 0]

\* TopoStats with its property defaults.
DefaultStats ==
    [vert_count |-> 0, face_count |-> 0, tri_count |-> 0, ngon_count |-> 0,
     score |-> 100, target_name |-> ""]

\* IndicesStr without the [:200] slice.
IndicesStrUncapped(found) == Join([i \in 1..Len(found) |-> Str(found[i])])

\* ",".join([str(x.index) for x in found[:200]])
IndicesStr(found) ==
    LET kept == Take(found, IndexCap)
    IN  Join([i \in 1..Len(kept) |-> Str(kept[i])])

\* ------------------------------------------------------ the analysis pass

ngon_faces(bm) == Matching([k \in 1..Len(bm.faces) |-> IsNgon(bm.faces[k])])

bad_edges(bm) == Matching([k \in 1..Len(bm.edges) |-> IsNonManifold(bm.edges[k])])

sliver_faces(bm) == Matching([k \in 1..Len(bm.faces) |-> IsSliver(bm.faces[k])])

pole_verts(bm) == Matching([k \in 1..Len(bm.verts) |-> IsPole(bm.verts[k])])

\* ratio = (len(ngon_faces) / total_faces) * 100; "HIGH" if ratio > 1.
NgonSeverity(ngons, total_faces) ==
    IF ngons * 100 > total_faces THEN "HIGH" ELSE "MEDIUM"

NgonIssue(bm) ==
    LET found == ngon_faces(bm)
    IN  IF found = <<>> THEN <<>>
        ELSE <<add_issue(NgonSeverity(Len(found), Len(bm.faces)),
                         Str(Len(found)) \o <<" N-Gons Detected">>,
                         "Faces with >4 edges. Click the button to cycle through them and fix.",
                         IndicesStr(found), "FACE")>>

NonManifoldIssue(bm) ==
    LET found == bad_edges(bm)
    IN  IF found = <<>> THEN <<>>
        ELSE <<add_issue("CRITICAL", <<"Non-Manifold Geometry">>,
                         "Edges creating holes or internal faces.",
                         IndicesStr(found), "EDGE")>>

SliverIssue(bm) ==
    LET found == sliver_faces(bm)
    IN  IF found = <<>> THEN <<>>
        ELSE <<add_issue("MEDIUM", Str(Len(found)) \o <<" Sliver Faces">>,
                         "Long, thin faces causing shading artifacts.",
                         IndicesStr(found), "FACE")>>

PoleIssue(bm) ==
    LET found == pole_verts(bm)
    IN  IF found = <<>> THEN <<>>
        ELSE <<add_issue("INFO", Str(Len(found)) \o <<" High-Valence Poles">>,
                         "Vertices with >5 edges (Stars). Check placement.",
                         IndicesStr(found), "VERT")>>

GoodIssue ==
    add_issue("GOOD", <<"Immaculate Topology">>, "No issues found.", <<>>, "")

\* Issues without the synthetic GOOD record for an empty list.
IssuesWithoutGood(bm) ==
    NgonIssue(bm) \o NonManifoldIssue(bm) \o SliverIssue(bm) \o PoleIssue(bm)

\* The report list a complete pass leaves, in the order the checks run; the
\* synthetic GOOD record when no check added one.
Issues(bm) ==
    LET found == NgonIssue(bm) \o NonManifoldIssue(bm) \o SliverIssue(bm)
                    \o PoleIssue(bm)
    IN  IF Len(found) = 0 THEN <<GoodIssue>> ELSE found

\* Clamp without the lower bound: int(min(100, current_score)).
ClampNoFloor(num, total_faces) ==
    IF num >= 100 * total_faces THEN 100 ELSE num \div total_faces

\* int(max(0, min(100, current_score))).  current_score is
\* (100*F - 200*ngons - 25*F*[bad] - 100*slivers) / F, kept here as the
\* numerator over F.
Clamp(num, total_faces) ==
    IF num <= 0 THEN 0
    ELSE IF num >= 100 * total_faces THEN 100
    ELSE num \div total_faces

\* Score without the flat penalty for non-manifold edges.
ScoreWithoutPenalty(ngons, has_bad_edges, slivers, total_faces) ==
    LET num == 100 * total_faces - 200 * ngons - 100 * slivers
        exact == Clamp(num, total_faces)
        inexact == /\ ngons + slivers > 0
                   /\ num % total_faces = 0
                   /\ exact > 0
                   /\ exact < 100
    IN  IF inexact THEN {exact, exact - 1} ELSE {exact}

\* The values stats.score can take.  The code computes in binary floating
\* point: when the exact value is a whole number reached by subtracting a
\* fraction that has no exact binary form, the computed value may fall just
\* below it and truncate to one less (F=25, 7 n-gons: 43.99999999999999).
\* Both outcomes are kept.  With no n-gon and no sliver every operand is
\* exact.
Score(ngons, has_bad_edges, slivers, total_faces) ==
    LET num == 100 * total_faces - 200 * ngons
                 - (IF has_bad_edges THEN NonManifoldPenalty * total_faces ELSE 0)
                 - 100 * slivers
        exact == Clamp(num, total_faces)
        inexact == /\ ngons + slivers > 0
                   /\ num % total_faces = 0
                   /\ exact > 0
                   /\ exact < 100
    IN  IF inexact THEN {exact, exact - 1} ELSE {exact}

\* The counters written at lines 159-162.
Counts(bm, stats) ==
    [stats EXCEPT !.vert_count = Len(bm.verts),
                  !.face_count = Len(bm.faces),
                  !.tri_count = Len(Matching([k \in 1..Len(bm.faces) |-> IsTri(bm.faces[k])])),
                  !.ngon_count = Len(ngon_faces(bm))]

\* ------------------------------------------------ the meshes of the model

Rep(n, x) == [i \in 1..n |-> x]

Tri == Face(3, <<1, 1, 1>>)

Quad == Face(4, <<1, 1, 1, 1>>)

Pentagon == Face(5, <<1, 1, 1, 1, 1>>)

\* Longest edge 16 times the shortest: a sliver.
SliverQuad == Face(4, <<16, 1, 16, 1>>)

SliverPentagon == Face(5, <<1, 1, 1, 1, 16>>)

\* Longest edge exactly 15 times the shortest: not a sliver.
LongQuad == Face(4, <<15, 1, 15, 1>>)

\* A zero-length edge: the sliver check's min(lengths) > 0 guard.
CollapsedTri == Face(3, <<0, 5, 5>>)

\* No geometry at all.
EmptyMesh == Mesh(<<>>, <<>>, <<>>)

\* One loose edge: vertices and an edge, no face.
WireMesh == Mesh(<<>>, <<Edge(FALSE)>>, <<Vert(1), Vert(1)>>)

\* A closed mesh without defects.
CleanMesh ==
    Mesh(<<Quad, Quad, Tri, Tri, LongQuad, CollapsedTri>>,
         Rep(11, Edge(TRUE)),
         <<Vert(3), Vert(3), Vert(4), Vert(5), Vert(3), Vert(4), Vert(3)>>)

\* A single quad: its four border edges are non-manifold.
PlaneMesh == Mesh(<<Quad>>, Rep(4, Edge(FALSE)), Rep(4, Vert(2)))

\* Quads with exactly one non-manifold edge, at index 3.
SeamMesh ==
    Mesh(<<Quad, Quad, Tri>>,
         <<Edge(TRUE), Edge(TRUE), Edge(TRUE), Edge(FALSE), Edge(TRUE)>>,
         Rep(5, Vert(3)))

\* Every face an n-gon, nothing else wrong.
NgonMesh == Mesh(<<Pentagon, Pentagon>>, Rep(5, Edge(TRUE)), Rep(6, Vert(3)))

\* Every face an n-gon, with a non-manifold edge and a sliver as well.
WorstMesh ==
    Mesh(<<SliverPentagon, Pentagon>>, <<Edge(FALSE), Edge(TRUE)>>, Rep(6, Vert(3)))

\* Ten faces with n-gons at indices 2, 5 and 9.
ExampleMesh ==
    Mesh(<<Quad, Tri, Pentagon, Quad, Quad, Pentagon, Quad, Tri, Quad, Pentagon>>,
         Rep(12, Edge(TRUE)), Rep(11, Vert(4)))

\* Twelve faces with slivers at indices 10 and 11, and poles at vertices 1
\* and 4.
MixedMesh ==
    Mesh(Rep(10, Quad) \o <<SliverQuad, SliverQuad>>,
         Rep(12, Edge(TRUE)),
         <<Vert(4), Vert(6), Vert(4), Vert(5), Vert(7), Vert(4)>>)

Meshes ==
    {EmptyMesh, WireMesh, CleanMesh, PlaneMesh, SeamMesh, NgonMesh, WorstMesh,
     ExampleMesh, MixedMesh}

\* ------------------------------------------------------------------ state

VARIABLES
    topo_report_list,   \* scene.topo_report_list: the TopoIssueItem records
    topo_stats,         \* scene.topo_stats
    active_object,      \* context.active_object: an object name or NoObject
    mode,               \* obj.mode of the mesh object
    mesh,               \* obj.data of the mesh object
    last,               \* the operator that ran last: its return value, its
                        \* self.report and the element it left selected
    calls,              \* per record, the focus invocations since it was made
    analysed            \* <<bm>>, the mesh the last analysis read, or <<>>

vars == <<topo_report_list, topo_stats, active_object, mode, mesh, last, calls,
          analysed>>

\* No analysis has read a mesh (none ran, or the last one was cancelled).
NoMesh == <<>>

\* The mesh is as the last analysis read it.
UnchangedSinceAnalysis == analysed = <<mesh>>

Report(op, result, level, text) ==
    [op |-> op, result |-> result, level |-> level, text |-> text,
     index |-> -1, element_type |-> "", target_id |-> -1, position |-> -1,
     total |-> -1, selected_type |-> "", selected_id |-> -1]

\* What an operator of the host that is not part of the add-on leaves.
HostOp == Report("host", "FINISHED", "", "")

IsMeshObject(obj) == obj \in Objects /\ ObjectType[obj] = "MESH"

Init ==
    /\ topo_report_list = <<>>
    /\ topo_stats = DefaultStats
    /\ active_object \in Objects \cup {NoObject}
    /\ mode \in Modes
    /\ mesh \in Meshes
    /\ last = HostOp
    /\ calls = <<>>
    /\ analysed = NoMesh

\* ------------------------------------------- MESH_OT_AnalyzeTopo.execute

\* obj.mode when execute returns after total_faces == 0 (lines 155-157):
\* mode_set(mode='OBJECT') has run, nothing sets the mode again.
ModeAfterNoFaces(previous_mode) == "OBJECT"

\* obj.mode when execute returns at line 231: previous_mode again.
ModeAfterPass(previous_mode) == previous_mode

AnalyzeTopo ==
    IF ~IsMeshObject(active_object)
    THEN /\ topo_report_list' = <<>>
         /\ calls' = <<>>
         /\ analysed' = NoMesh
         /\ last' = Report("analyze", "CANCELLED", "ERROR",
                           "Please select a Mesh object.")
         /\ UNCHANGED <<topo_stats, active_object, mode, mesh>>
    ELSE LET bm == mesh
             named == [topo_stats EXCEPT !.target_name = active_object]
             total_faces == Len(bm.faces)
         IN  /\ analysed' = <<bm>>
             /\ last' = Report("analyze", "FINISHED", "", "")
             /\ UNCHANGED <<active_object, mesh>>
             /\ IF total_faces = 0
                THEN /\ topo_report_list' = <<>>
                     /\ calls' = <<>>
                     /\ topo_stats' = named
                     /\ mode' = ModeAfterNoFaces(mode)
                ELSE /\ topo_report_list' = Issues(bm)
                     /\ calls' = [i \in 1..Len(Issues(bm)) |-> 0]
                     /\ \E sc \in Score(Len(ngon_faces(bm)), bad_edges(bm) # <<>>,
                                        Len(sliver_faces(bm)), total_faces) :
                            topo_stats' = [Counts(bm, named) EXCEPT !.score = sc]
                     /\ mode' = ModeAfterPass(mode)

\* --------------------------------------------- MESH_OT_FocusIssue.execute

\* CyclePointer that stays on the last index instead of wrapping to 0.
CyclePointerNoWrap(current_pointer, n) ==
    IF current_pointer >= n THEN n - 1 ELSE current_pointer

\* if item.current_pointer >= len(ids): item.current_pointer = 0
CyclePointer(current_pointer, n) == IF current_pointer >= n THEN 0 ELSE current_pointer

\* AdvancePointer that steps over an index.
AdvancePointerTwice(current_pointer) == current_pointer + 2

\* item.current_pointer += 1
AdvancePointer(current_pointer) == current_pointer + 1

\* The element table of the edit mesh that element_type names.
Table(bm, element_type) ==
    CASE element_type = "FACE" -> bm.faces
      [] element_type = "EDGE" -> bm.edges
      [] element_type = "VERT" -> bm.verts
      [] OTHER -> <<>>

\* if target_id < len(bm.faces): the element is selected only then; no
\* branch of lines 84-103 indexes a table out of range.
Selects(bm, element_type, target_id) == target_id < Len(Table(bm, element_type))

\* Focus on record i (self.index = i - 1).  With no active object, with one
\* that is no mesh, or with an index outside the list, execute raises before
\* it changes anything; those invocations are not steps.
Focus(i) ==
    LET item == topo_report_list[i]
        parsed == ParseIds(item.element_indices)
        ids == parsed.ids
        pointer == CyclePointer(item.current_pointer, Len(ids))
        target_id == ids[pointer + 1]
        hit == Selects(mesh, item.element_type, target_id)
    IN  /\ IsMeshObject(active_object)
        /\ calls[i] < MaxCalls
        /\ mode' = "EDIT"
        /\ UNCHANGED <<topo_stats, active_object, mesh, analysed>>
        /\ IF item.element_indices = <<>>
           THEN /\ last' = [Report("focus", "FINISHED", "WARNING",
                                   "No specific geometry to select for this issue.")
                               EXCEPT !.index = i - 1]
                /\ UNCHANGED <<topo_report_list, calls>>
           ELSE IF ~parsed.ok
           THEN /\ last' = [Report("focus", "FINISHED", "", "") EXCEPT !.index = i - 1]
                /\ UNCHANGED <<topo_report_list, calls>>
           ELSE /\ topo_report_list' =
                       [topo_report_list EXCEPT ![i].current_pointer =
                                                    AdvancePointer(pointer)]
                /\ calls' = [calls EXCEPT ![i] = @ + 1]
                /\ last' = [Report("focus", "FINISHED", "INFO", "Selected") EXCEPT
                               !.index = i - 1,
                               !.element_type = item.element_type,
                               !.target_id = target_id,
                               !.position = AdvancePointer(pointer),
                               !.total = Len(ids),
                               !.selected_type = IF hit THEN item.element_type ELSE "",
                               !.selected_id = IF hit THEN target_id ELSE -1]

FocusIssue == \E i \in 1..Len(topo_report_list) : Focus(i)

\* ------------------------------------------------------------- the host

\* The user makes another object, or none, the active one.
SetActive ==
    /\ \E obj \in (Objects \cup {NoObject}) \ {active_object} : active_object' = obj
    /\ last' = HostOp
    /\ UNCHANGED <<topo_report_list, topo_stats, mode, mesh, calls, analysed>>

\* The user toggles the active mesh object between object and edit mode.
ToggleMode ==
    /\ IsMeshObject(active_object)
    /\ mode' = IF mode = "EDIT" THEN "OBJECT" ELSE "EDIT"
    /\ last' = HostOp
    /\ UNCHANGED <<topo_report_list, topo_stats, active_object, mesh, calls, analysed>>

\* The user changes the topology of the active mesh object.
EditMesh ==
    /\ IsMeshObject(active_object)
    /\ \E m \in Meshes \ {mesh} : mesh' = m
    /\ last' = HostOp
    /\ UNCHANGED <<topo_report_list, topo_stats, active_object, mode, calls, analysed>>

Next == AnalyzeTopo \/ FocusIssue \/ SetActive \/ ToggleMode \/ EditMesh

Spec == Init /\ [][Next]_vars

\* ----------------------------------------- large meshes, around the cap

\* Whether the element with mesh index i is hit by a defect that recurs
\* every step elements (step 0: never).
Recurs(i, step) == step > 0 /\ i % step = step - 1

StripedFaces(n, ngon_step, sliver_step) ==
    [k \in 1..n |->
        IF Recurs(k - 1, ngon_step)
        THEN (IF Recurs(k - 1, sliver_step) THEN SliverPentagon ELSE Pentagon)
        ELSE (IF Recurs(k - 1, sliver_step) THEN SliverQuad ELSE Quad)]

StripedEdges(n, step) == [k \in 1..n |-> Edge(~Recurs(k - 1, step))]

StripedVerts(n, step) ==
    [k \in 1..n |-> IF Recurs(k - 1, step) THEN Vert(PoleValence + 1)
                    ELSE Vert(PoleValence)]

\* Table sizes that put the number of matching elements just below, at and
\* above the cap, for defects on every element and on every second one.
CapSizes ==
    {IndexCap - 1, IndexCap, IndexCap + MaxOver, 2 * (IndexCap + MaxOver)}

CapMeshes ==
    {Mesh(StripedFaces(n, ns, ss), StripedEdges(n + 1, es), StripedVerts(n + 2, vs)) :
        n \in CapSizes, ns \in {0, 1, 2, IndexCap}, ss \in {0, 2}, es \in {0, 1, 2},
        vs \in {0, 1}}

\* One analysis of a large mesh: the analysis pass as a function of the mesh.
InitCap ==
    /\ topo_report_list = <<>>
    /\ topo_stats = DefaultStats
    /\ active_object = "Cube"
    /\ mode = "OBJECT"
    /\ mesh \in CapMeshes
    /\ last = HostOp
    /\ calls = <<>>
    /\ analysed = NoMesh

NextCap == AnalyzeTopo

SpecCap == InitCap /\ [][NextCap]_vars

\* ============================================================ properties

\* The index list of a record, parsed back as the focus operator parses it.
Ids(item) ==
    IF item.element_indices = <<>> THEN <<>> ELSE ParseIds(item.element_indices).ids

\* The last operator was a run of the analysis on the active mesh object,
\* and nothing has happened since.
JustAnalysed == last.op = "analyze" /\ IsMeshObject(active_object)

\* The last operator was a focus invocation that got as far as choosing a
\* target in record i.
JustFocused(i) ==
    /\ last.op = "focus"
    /\ last.index = i - 1
    /\ topo_report_list[i].element_indices # <<>>

Records == 1..Len(topo_report_list)

\* ---- C1
\* C1: on a record with ids[0..n-1], n > 0, made by an analysis of the mesh
\* as it still is, the k-th focus invocation on the record selects element
\* ids[(k-1) mod n] of the record's type and reports position
\* ((k-1) mod n) + 1 of n.
C1_RoundRobinFocus ==
    \A i \in Records :
        (JustFocused(i) /\ UnchangedSinceAnalysis) =>
            LET item == topo_report_list[i]
                ids == Ids(item)
                n == Len(ids)
                k == calls[i]
            IN  /\ n > 0
                /\ k > 0
                /\ last.result = "FINISHED"
                /\ last.selected_type = item.element_type
                /\ last.selected_id = ids[((k - 1) % n) + 1]
                /\ last.target_id = ids[((k - 1) % n) + 1]
                /\ last.position = ((k - 1) % n) + 1
                /\ last.total = n

\* The fourth call on the record with ids [2,5,9] has wrapped to face 2 and
\* reports 1/3.
C1_Witness ==
    /\ topo_report_list # <<>>
    /\ JustFocused(1)
    /\ UnchangedSinceAnalysis
    /\ Ids(topo_report_list[1]) = <<2, 5, 9>>
    /\ calls[1] = 4
    /\ last.selected_type = "FACE"
    /\ last.selected_id = 2
    /\ last.position = 1
    /\ last.total = 3

\* ---- C2
\* The next target of record i lies outside the current element table of the
\* record's type.
StaleTarget(i) ==
    LET item == topo_report_list[i]
        ids == Ids(item)
    IN  /\ ids # <<>>
        /\ ids[CyclePointer(item.current_pointer, Len(ids)) + 1]
              >= Len(Table(mesh, item.element_type))

\* C2: a focus invocation on a record whose next target index is not below
\* the current number of elements of its type is cancelled with an error,
\* reports no selection and leaves the record's cursor where it was.
C2_StaleFocusCancelled ==
    [][\A i \in Records :
          (StaleTarget(i) /\ last'.op = "focus" /\ last'.index = i - 1) =>
              /\ last'.result = "CANCELLED"
              /\ last'.level = "ERROR"
              /\ topo_report_list'[i].current_pointer
                    = topo_report_list[i].current_pointer]_vars

\* ---- C3
\* C3: an analysis run with no active mesh object leaves the report list and
\* the stats record as they were.
C3_NoMeshAnalysisMutatesNothing ==
    [][(~IsMeshObject(active_object) /\ last'.op = "analyze") =>
          /\ last'.result = "CANCELLED"
          /\ topo_report_list' = topo_report_list
          /\ topo_stats' = topo_stats]_vars

\* ---- C4
\* C4: after an analysis of a mesh with zero faces the stats hold the mesh's
\* vertex count and a face count of 0, the report list is empty and the
\* score is the default 100.
C4_ZeroFaceAnalysis ==
    (JustAnalysed /\ Len(mesh.faces) = 0) =>
        /\ topo_stats.vert_count = Len(mesh.verts)
        /\ topo_stats.face_count = 0
        /\ topo_report_list = <<>>
        /\ topo_stats.score = 100

\* ---- C5
AllNgons(bm) == Len(bm.faces) > 0 /\ \A k \in 1..Len(bm.faces) : bm.faces[k].verts > 4

\* C5: the stored score is always an integer in [0,100], and an analysis of
\* a mesh whose faces are all n-gons leaves it at 0.
C5_ScoreInRange ==
    /\ topo_stats.score \in 0..100
    /\ (JustAnalysed /\ AllNgons(mesh)) => topo_stats.score = 0

\* All n-gons, with a non-manifold edge and a sliver on top: 100 - 200 - 25
\* - 50 is clamped to 0.
C5_Witness ==
    /\ JustAnalysed
    /\ AllNgons(mesh)
    /\ \E k \in 1..Len(mesh.edges) : ~mesh.edges[k].is_manifold
    /\ \E k \in 1..Len(mesh.faces) : IsSliver(mesh.faces[k])
    /\ topo_stats.score = 0

\* ---- C6
NoNgons(bm) == \A k \in 1..Len(bm.faces) : bm.faces[k].verts <= 4

NoBadEdges(bm) == \A k \in 1..Len(bm.edges) : bm.edges[k].is_manifold

NoSlivers(bm) == \A k \in 1..Len(bm.faces) : ~IsSliver(bm.faces[k])

NoPoles(bm) == \A k \in 1..Len(bm.verts) : bm.verts[k].link_edges <= 5

Defectless(bm) == NoNgons(bm) /\ NoBadEdges(bm) /\ NoSlivers(bm) /\ NoPoles(bm)

IsGood(item) == item.severity = "GOOD"

\* The list is exactly one GOOD record with no indices and no element type.
OnlyGood ==
    /\ Len(topo_report_list) = 1
    /\ IsGood(topo_report_list[1])
    /\ topo_report_list[1].element_indices = <<>>
    /\ topo_report_list[1].element_type = ""

\* A GOOD record is present exactly when it is the only record, and the list
\* is not empty.
GoodIffAlone ==
    /\ topo_report_list # <<>>
    /\ (\E i \in Records : IsGood(topo_report_list[i])) <=> OnlyGood

OnlyCritical(bm) ==
    /\ Len(topo_report_list) = 1
    /\ topo_report_list[1].severity = "CRITICAL"
    /\ topo_report_list[1].element_type = "EDGE"
    /\ LET ids == Ids(topo_report_list[1])
       IN  /\ {ids[k] : k \in 1..Len(ids)}
                = {e \in 0..(Len(bm.edges) - 1) : ~bm.edges[e + 1].is_manifold}
           /\ \A k \in 1..(Len(ids) - 1) : ids[k] < ids[k + 1]

NonManifoldOnly(bm) ==
    /\ ~NoBadEdges(bm)
    /\ NoNgons(bm)
    /\ NoSlivers(bm)
    /\ NoPoles(bm)

Entries(item) ==
    IF item.element_indices = <<>> THEN 0 ELSE Len(Split(item.element_indices))

\* The checks, by what add_issue puts last in the record's name.
Checks ==
    {" N-Gons Detected", "Non-Manifold Geometry", " Sliver Faces",
     " High-Valence Poles"}

CheckOf(item) == item.name[Len(item.name)]

\* The mesh indices a check matches in bm.
Matches(check, bm) ==
    CASE check = " N-Gons Detected" ->
            {x \in 0..(Len(bm.faces) - 1) : bm.faces[x + 1].verts > 4}
      [] check = "Non-Manifold Geometry" ->
            {x \in 0..(Len(bm.edges) - 1) : ~bm.edges[x + 1].is_manifold}
      [] check = " Sliver Faces" ->
            {x \in 0..(Len(bm.faces) - 1) : IsSliver(bm.faces[x + 1])}
      [] check = " High-Valence Poles" ->
            {x \in 0..(Len(bm.verts) - 1) : bm.verts[x + 1].link_edges > 5}

\* ids is the first min(|found|, 200) members of found, ascending: as many
\* as that, ascending, all of them in found, and no member of found up to
\* the last of them left out.
FirstOf(ids, found) ==
    /\ Len(ids) = Min(Cardinality(found), 200)
    /\ \A k \in 1..Len(ids) : ids[k] \in found
    /\ \A k \in 1..(Len(ids) - 1) : ids[k] < ids[k + 1]
    /\ ids # <<>> => Cardinality({x \in found : x <= ids[Len(ids)]}) = Len(ids)

\* C8: no record's index list has more than 200 entries, and after an
\* analysis pass every check that matched some elements has its record,
\* whose list is the first 200 matching indices in ascending mesh index
\* order, or all of them when there are no more than 200.
C8_IndexListCapped ==
    /\ \A i \in Records : Entries(topo_report_list[i]) <= 200
    /\ (JustAnalysed /\ Len(mesh.faces) > 0) =>
          \A check \in Checks :
              Matches(check, mesh) # {} =>
                  \E i \in Records :
                      /\ CheckOf(topo_report_list[i]) = check
                      /\ Entries(topo_report_list[i]) = Len(Ids(topo_report_list[i]))
                      /\ FirstOf(Ids(topo_report_list[i]), Matches(check, mesh))

\* A check matched more than 200 elements, every second one of the table:
\* its list stops at the 200th match, index 399.
C8_Witness ==
    /\ JustAnalysed
    /\ \E i \in Records :
          /\ CheckOf(topo_report_list[i]) \in Checks
          /\ Cardinality(Matches(CheckOf(topo_report_list[i]), mesh)) > 200
          /\ Entries(topo_report_list[i]) = 200
          /\ Ids(topo_report_list[i])[1] = 1
          /\ Ids(topo_report_list[i])[200] = 399

\* ---- C9
\* C9 as stated: the stored cursor of a record with n > 0 indices is in
\* 0..n-1, and is 0 again after exactly n invocations on a fresh record.
C9_CursorRangeOriginal ==
    \A i \in Records :
        LET n == Len(Ids(topo_report_list[i]))
            cursor == topo_report_list[i].current_pointer
        IN  n > 0 =>
                /\ cursor \in 0..(n - 1)
                /\ calls[i] = n => cursor = 0

\* C9 as amended: the stored cursor is in 0..n; it is 0 exactly in a record
\* no focus invocation has touched since the analysis made it, and after
\* the k-th invocation it is ((k-1) mod n) + 1: each invocation takes it
\* from c to (c mod n) + 1, the wrap from n to 0 being made at the start of
\* the next invocation, so after exactly n invocations it is n.
C9_CursorRange ==
    \A i \in Records :
        LET n == Len(Ids(topo_report_list[i]))
            cursor == topo_report_list[i].current_pointer
            k == calls[i]
        IN  n > 0 =>
                /\ cursor \in 0..n
                /\ cursor = (IF k = 0 THEN 0 ELSE ((k - 1) % n) + 1)

\* Three invocations on a record of three indices: the stored cursor is 3.
C9_Witness ==
    \E i \in Records :
        /\ Len(Ids(topo_report_list[i])) = 3
        /\ calls[i] = 3
        /\ topo_report_list[i].current_pointer = 3

\* ---- C10
\* C10: whichever way an analysis run on an active mesh object returns, the
\* object's mode after the run is its mode before the run.
C10_ModeRestored ==
    [][(IsMeshObject(active_object) /\ last'.op = "analyze") => mode' = mode]_vars

====
